---- MODULE Spec2Model ----
(***************************************************************************)
(* valctx: the -field flag parser (NewField, FieldFlags.Set), the field    *)
(* resolver (ParseFields) and the command's run function.                  *)
(*                                                                         *)
(* Text is modelled as a sequence of characters; a character is a string   *)
(* of the model.  Three characters are written by name: "xFF" is a byte    *)
(* that is not valid UTF-8, "uFFFD" is utf8.RuneError (U+FFFD) and "u212A" *)
(* is the Kelvin sign (U+212A), an upper-case letter whose lower case is   *)
(* the ASCII letter k.                                                     *)
(***************************************************************************)
EXTENDS Integers, Sequences, FiniteSets, TLC

VARIABLES
    pc,         \* position in run / in the NewField specification
    fields,     \* run's var fields app.FieldFlags
    given,      \* history: the -field values whose Set call returned nil, in order
    setErr,     \* the error returned by the last FieldFlags.Set call
    output,     \* run's var output (the -output flag)
    pkg,        \* run's var pkg (the -package flag)
    parsed,     \* the result of app.ParseFields: [pkg, fields, err]
    file,       \* the io.WriteCloser returned by openFile, or NoFile
    calls,      \* history: the method calls made on the file, in order
    genErr,     \* the error gen.Generate returned, or "unset"
    code,       \* run's first result, -1 while running
    err,        \* run's second result
    value,      \* NewField's argument (specification SpecNewField)
    res,        \* NewField(value)
    again,      \* NewField applied to the String() of res.f
    sf,         \* the app.SafeFile (specification SpecSafeFile)
    disk,       \* the file system: the output path and the temporary file
    parseErr,   \* the error rootCmd.Parse / versionCmd.Parse returned, or "unset"
    openErr,    \* the error openFile returned, or "unset" while it was not called
    closeErr,   \* the error file.Close returned, or "unset"
    written,    \* what gen.Generate wrote to the file: the declarations per field
    subCmd      \* args[0] as run's switch reads it: "version" or anything else

vars == <<pc, fields, given, setErr, output, pkg, parsed, file, calls, genErr,
          code, err, value, res, again, sf, disk, parseErr, openErr, closeErr,
          written, subCmd>>

----------------------------------------------------------------------------
(* Bounds *)

MaxLen == 4

MaxFields == 3

MaxWrites == 3

----------------------------------------------------------------------------
(* Characters *)

Lower == <<"a","b","c","d","e","f","g","h","i","j","k","l","m",
           "n","o","p","q","r","s","t","u","v","w","x","y","z">>

Upper == <<"A","B","C","D","E","F","G","H","I","J","K","L","M",
           "N","O","P","Q","R","S","T","U","V","W","X","Y","Z">>

Digits == <<"0","1","2","3","4","5","6","7","8","9">>

Range(s) == {s[i] : i \in DOMAIN s}

IndexOf(s, c) == CHOOSE i \in DOMAIN s : s[i] = c

BadByte == "xFF"

RuneError == "uFFFD"

Kelvin == "u212A"

\* unicode.ToUpper on one rune
ToUpperRune(r) == IF r \in Range(Lower) THEN Upper[IndexOf(Lower, r)] ELSE r

\* unicode.ToLower on one rune
ToLowerRune(r) ==
    IF r \in Range(Upper) THEN Lower[IndexOf(Upper, r)]
    ELSE IF r = Kelvin THEN "k"
    ELSE r

\* the code point of a character (the order of UTF-8 encoded strings is the
\* order of their code points); an invalid byte sorts as its byte value
CharCode(c) ==
    IF c \in Range(Lower) THEN 96 + IndexOf(Lower, c)
    ELSE IF c \in Range(Upper) THEN 64 + IndexOf(Upper, c)
    ELSE IF c \in Range(Digits) THEN 47 + IndexOf(Digits, c)
    ELSE CASE c = " " -> 32
           [] c = "." -> 46
           [] c = "/" -> 47
           [] c = ":" -> 58
           [] c = "[" -> 91
           [] c = "]" -> 93
           [] c = "_" -> 95
           [] c = "{" -> 123
           [] c = "}" -> 125
           [] c = "+" -> 43
           [] c = "*" -> 42
           [] c = BadByte -> 255
           [] c = Kelvin -> 8490
           [] c = RuneError -> 65533

----------------------------------------------------------------------------
(* package strings, unicode/utf8 *)

\* strings.LastIndex(s, c) for a one-character c: 0-based, -1 when absent
LastIndex(s, c) ==
    IF \E i \in DOMAIN s : s[i] = c
    THEN (CHOOSE i \in DOMAIN s : s[i] = c /\ \A j \in DOMAIN s : s[j] = c => j <= i) - 1
    ELSE -1

\* strings.Index(s, c)
Index(s, c) ==
    IF \E i \in DOMAIN s : s[i] = c
    THEN (CHOOSE i \in DOMAIN s : s[i] = c /\ \A j \in DOMAIN s : s[j] = c => j >= i) - 1
    ELSE -1

\* Go's s[lo:hi] with 0-based bounds
Slice(s, lo, hi) == SubSeq(s, lo + 1, hi)

\* strings.SplitN(value, ":", 2)
SplitN2(s) ==
    LET i == Index(s, ":") IN
    IF i = -1 THEN <<s>> ELSE <<Slice(s, 0, i), Slice(s, i + 1, Len(s))>>

IsSpace(c) == c = " "

\* strings.TrimSpace
TrimSpace(s) ==
    IF \A i \in DOMAIN s : IsSpace(s[i]) THEN <<>>
    ELSE LET lo == CHOOSE i \in DOMAIN s :
                       ~IsSpace(s[i]) /\ \A j \in 1..(i - 1) : IsSpace(s[j])
             hi == CHOOSE i \in DOMAIN s :
                       ~IsSpace(s[i]) /\ \A j \in (i + 1)..Len(s) : IsSpace(s[j])
         IN SubSeq(s, lo, hi)

\* utf8.DecodeRuneInString: <<rune, size>>
DecodeRuneInString(s) ==
    IF s = <<>> THEN <<RuneError, 0>>
    ELSE IF s[1] = BadByte THEN <<RuneError, 1>>
    ELSE <<s[1], 1>>

\* strings.ToUpper / strings.ToLower, as passed to modifyFirstLetter
ApplyCase(modify, s) ==
    [i \in DOMAIN s |->
        LET r == IF s[i] = BadByte THEN RuneError ELSE s[i] IN
        IF modify = "ToUpper" THEN ToUpperRune(r) ELSE ToLowerRune(r)]

modifyFirstLetterWhole(s, modify) == ApplyCase(modify, s)

modifyFirstLetter(s, modify) ==
    LET d == DecodeRuneInString(s) IN
    ApplyCase(modify, <<d[1]>>) \o Slice(s, d[2], Len(s))

----------------------------------------------------------------------------
(* FieldFlag, NewField *)

FieldFlag(kind, name, type) == [Kind |-> kind, Name |-> name, Type |-> type]

ZeroFieldFlag == FieldFlag("Default", <<>>, <<>>)

\* (*FieldFlag).String
FieldString(f) ==
    IF f.Kind = "Default" THEN f.Name ELSE f.Name \o <<":">> \o f.Type

ValidateNoTypeCheck(f) ==
    IF f.Name = <<>> THEN "name is required"
    ELSE "nil"

\* (*FieldFlag).Validate
Validate(f) ==
    IF f.Name = <<>> THEN "name is required"
    ELSE IF f.Kind = "Default" THEN "nil"
    ELSE IF f.Type = <<>> THEN "type is required"
    ELSE IF f.Kind \in {"BuiltInOnly", "CustomType"} THEN "nil"
    ELSE "ErrUnsupportedFlagFormat"

ClassifyDotAnywhere(type) ==
    IF LastIndex(type, ".") # -1 THEN "CustomType" ELSE "BuiltInOnly"

\* the classification of the two-part form: NewField's if / else if / else
Classify(type) ==
    LET dot == LastIndex(type, ".")
        slash == LastIndex(type, "/")
    IN IF dot > slash THEN "CustomType"
       ELSE IF dot = -1 THEN "BuiltInOnly"
       ELSE "ErrInvalidFormat"

\* NewField: [f, err], the two results
NewField(v) ==
    LET parts == SplitN2(v) IN
    IF Len(parts) = 1
    THEN LET f == FieldFlag("Default",
                            modifyFirstLetter(TrimSpace(parts[1]), "ToUpper"), <<>>)
         IN [f |-> f, err |-> Validate(f)]
    ELSE LET p0 == TrimSpace(parts[1])
             p1 == TrimSpace(parts[2])
             kind == Classify(p1)
         IN IF kind = "ErrInvalidFormat"
            THEN [f |-> ZeroFieldFlag, err |-> "ErrInvalidFormat"]
            ELSE LET f == FieldFlag(kind, modifyFirstLetter(p0, "ToUpper"),
                                    TrimSpace(p1))
                 IN [f |-> f, err |-> Validate(f)]

----------------------------------------------------------------------------
(* Texts used by the code and by the flag values *)

Context == <<"c","o","n","t","e","x","t">>

KeySuffix == <<"K","e","y">>

InterfaceType == <<"i","n","t","e","r","f","a","c","e","{","}">>

IntType == <<"i","n","t">>

IntSliceType == <<"[","]","i","n","t">>

\* main.go's var Version
Version == <<"l","a","t","e","s","t">>

----------------------------------------------------------------------------
(* package gen: Field, Package and their Validate methods *)

GenField(name, key, type, package) ==
    [FieldName |-> name, KeyName |-> key, FieldType |-> type, Package |-> package]

\* (*gen.Field).SetPackage
SetPackage(field, pkgName) == [field EXCEPT !.Package = pkgName]

\* a letter of a Go identifier: a Unicode letter or the underscore
IsLetter(c) == c \in Range(Lower) \cup Range(Upper) \cup {"_", Kelvin}

IsIdentifier(s) ==
    /\ s # <<>>
    /\ IsLetter(s[1])
    /\ \A i \in DOMAIN s : IsLetter(s[i]) \/ s[i] \in Range(Digits)

\* the type texts of the flag values that are Go built-in type expressions
IsBuiltinType(t) == t \in {InterfaceType, IntType, IntSliceType}

\* gen.Field.Validate: "nil" or the error.  A field with no package must
\* have a Go built-in type expression as its type (run's tests: the types
\* invalid, strings, int[], []int[] and 3+3*3 end run with code 2).
FieldValidate(field) ==
    IF field.FieldName = <<>> THEN "field name is required"
    ELSE IF field.KeyName = <<>> THEN "key name is required"
    ELSE IF field.FieldType = <<>> THEN "field type is required"
    ELSE IF field.Package = <<>> /\ ~IsBuiltinType(field.FieldType)
         THEN "field type is not a built-in type"
    ELSE "nil"

GenPackage(name, imports, version) ==
    [PackageName |-> name, ImportPackages |-> imports, Version |-> version]

\* gen.Package{}
ZeroPackage == GenPackage(<<>>, <<>>, <<>>)

\* gen.Package.Validate
PackageValidate(p) ==
    IF IsIdentifier(p.PackageName) THEN "nil" ELSE "invalid package name"

----------------------------------------------------------------------------
(* ParseFields *)

\* s < t for Go strings
RECURSIVE StrLess(_, _)
StrLess(s, t) ==
    IF t = <<>> THEN FALSE
    ELSE IF s = <<>> THEN TRUE
    ELSE IF CharCode(s[1]) # CharCode(t[1]) THEN CharCode(s[1]) < CharCode(t[1])
    ELSE StrLess(Tail(s), Tail(t))

RECURSIVE SortStringsUnsorted(_)
SortStringsUnsorted(set) ==
    IF set = {} THEN <<>>
    ELSE LET x == CHOOSE y \in set : \A z \in set : z = y \/ StrLess(z, y)
         IN <<x>> \o SortStringsUnsorted(set \ {x})

\* the keys of seenPkgs collected into toImport and sorted by sort.StringSlice
RECURSIVE SortStrings(_)
SortStrings(set) ==
    IF set = {} THEN <<>>
    ELSE LET x == CHOOSE y \in set : \A z \in set : z = y \/ StrLess(y, z)
         IN <<x>> \o SortStrings(set \ {x})

\* KeyName: modifyFirstLetter(f.Name, strings.ToLower) + "Key"
KeyNameOf(name) == modifyFirstLetter(name, "ToLower") \o KeySuffix

\* pkgName := f.Type[:dot]
ImportPathOf(type) == Slice(type, 0, LastIndex(type, "."))

CustomFieldTypeBare(type) == Slice(type, LastIndex(type, ".") + 1, Len(type))

\* field.FieldType = f.Type[slash+1:], slash the last "/" of pkgName
CustomFieldType(type) ==
    LET slash == LastIndex(ImportPathOf(type), "/") IN
    Slice(type, slash + 1, Len(type))

IsSeenNever(seenFields, name) == FALSE

\* _, seen := seenFields[field.FieldName]
IsSeen(seenFields, name) == name \in seenFields

AppendFieldFront(genFields, field) == <<field>> \o genFields

\* genFields = append(genFields, field)
AppendField(genFields, field) == Append(genFields, field)

\* seenPkgs := map[string]struct{}{"context": {}}
SeedPkgs == {Context}

Error(kind, name) == [kind |-> kind, name |-> name]

NilError == Error("nil", <<>>)

Kinds == {"Default", "BuiltInOnly", "CustomType"}

BuildFieldDefaultInt(f) ==
    LET field == GenField(f.Name, KeyNameOf(f.Name), <<>>, <<>>) IN
    CASE f.Kind = "Default" -> [field EXCEPT !.FieldType = IntType]
      [] f.Kind = "BuiltInOnly" -> [field EXCEPT !.FieldType = f.Type]
      [] f.Kind = "CustomType" ->
            [SetPackage(field, ImportPathOf(f.Type))
                EXCEPT !.FieldType = CustomFieldType(f.Type)]

BuildFieldUntyped(f) ==
    LET field == GenField(f.Name, KeyNameOf(f.Name), <<>>, <<>>) IN
    CASE f.Kind = "Default" -> [field EXCEPT !.FieldType = InterfaceType]
      [] f.Kind = "BuiltInOnly" -> [field EXCEPT !.FieldType = InterfaceType]
      [] f.Kind = "CustomType" ->
            [SetPackage(field, ImportPathOf(f.Type))
                EXCEPT !.FieldType = CustomFieldType(f.Type)]

\* the gen.Field built from one flag before it is validated: the switch on
\* f.Kind
BuildField(f) ==
    LET field == GenField(f.Name, KeyNameOf(f.Name), <<>>, <<>>) IN
    CASE f.Kind = "Default" -> [field EXCEPT !.FieldType = InterfaceType]
      [] f.Kind = "BuiltInOnly" -> [field EXCEPT !.FieldType = f.Type]
      [] f.Kind = "CustomType" ->
            [SetPackage(field, ImportPathOf(f.Type))
                EXCEPT !.FieldType = CustomFieldType(f.Type)]

\* the for loop of ParseFields from flag i on; st holds genFields, seenFields
\* and seenPkgs
RECURSIVE ParseLoop(_, _, _)
ParseLoop(fs, i, st) ==
    IF i > Len(fs) THEN [st EXCEPT !.err = NilError]
    ELSE LET f == fs[i] IN
         IF f.Kind \notin Kinds
         THEN [st EXCEPT !.err = Error("ErrUnsupportedFlagFormat", <<>>)]
         ELSE LET field == BuildField(f)
                  pkgs == IF f.Kind = "CustomType"
                          THEN st.seenPkgs \cup {ImportPathOf(f.Type)}
                          ELSE st.seenPkgs
              IN IF FieldValidate(field) # "nil"
                 THEN [st EXCEPT !.err = Error("invalid field", f.Name)]
                 ELSE IF IsSeen(st.seenFields, field.FieldName)
                 THEN [st EXCEPT !.err = Error("duplicated", field.FieldName)]
                 ELSE ParseLoop(fs, i + 1,
                         [genFields |-> AppendField(st.genFields, field),
                          seenFields |-> st.seenFields \cup {field.FieldName},
                          seenPkgs |-> pkgs,
                          err |-> NilError])

\* ParseFields: [pkg, fields, err], the three results
ParseFields(p, version, fs) ==
    LET st == ParseLoop(fs, 1, [genFields |-> <<>>, seenFields |-> {},
                                seenPkgs |-> SeedPkgs, err |-> NilError])
    IN IF st.err # NilError
       THEN [pkg |-> ZeroPackage, fields |-> <<>>, err |-> st.err]
       ELSE LET genPkg == GenPackage(p, SortStrings(st.seenPkgs), version) IN
            IF PackageValidate(genPkg) # "nil"
            THEN [pkg |-> ZeroPackage, fields |-> <<>>,
                  err |-> Error("invalid package", p)]
            ELSE [pkg |-> genPkg, fields |-> st.genFields, err |-> NilError]

----------------------------------------------------------------------------
(* The inputs *)

\* the characters of NewField's arguments in SpecNewField
Alphabet == {"u", "U", ":", ".", "/", " ", BadByte}

\* every text of at most MaxLen characters
Values == UNION {[1..n -> Alphabet] : n \in 0..MaxLen}

\* the -field values given to run
FlagValues == {
    <<"u","I","D">>,
    <<"U","I","D">>,
    <<"U","I","D",":","i","n","t">>,
    <<"u","I","D",":","i","n","t","[","]">>,
    <<"n",":","[","]","i","n","t">>,
    <<"p",":","a","/","b",".","T">>,
    <<"q",":","a","/","b",".","S">>,
    <<"c",":","c","o","n","t","e","x","t",".","C","o","n","t","e","x","t">>,
    <<"z",":","z",".","T">>,
    <<"K">>,
    <<Kelvin>>,
    <<>>,
    <<"i",":","i","n","t","e","r","f","a","c","e","{","}">>,
    <<"s",":","s","t","r","i","n","g","s">>,
    <<"x",":">>,
    <<"x",":","a",".","b","/","c">> }

OutputFile == <<"o","u","t",".","g","o">>

\* the -output values given to run
Outputs == {<<>>, OutputFile}

\* the -package values given to run
Packages == {<<>>, <<"g","e","n">>, <<"1","g">>}

----------------------------------------------------------------------------
(* State *)

NoResult == [f |-> ZeroFieldFlag, err |-> "unset"]

NoParsed == [pkg |-> ZeroPackage, fields |-> <<>>, err |-> Error("unset", <<>>)]

NoFile == [open |-> FALSE, renamer |-> FALSE]

InitRun ==
    /\ fields = <<>>
    /\ given = <<>>
    /\ setErr = "nil"
    /\ output = <<>>
    /\ pkg = <<>>
    /\ parsed = NoParsed
    /\ file = NoFile
    /\ calls = <<>>
    /\ genErr = "unset"
    /\ code = -1
    /\ err = "nil"
    /\ parseErr = "unset"
    /\ openErr = "unset"
    /\ closeErr = "unset"
    /\ written = <<>>

\* what is at a path: nothing, a directory, or a file with its content
Absent == [kind |-> "absent", data |-> <<>>]

Dir == [kind |-> "dir", data |-> <<>>]

FileOf(data) == [kind |-> "file", data |-> data]

\* a SafeFile: its rmOnClose field, the error its constructor or its Close
\* returned, and as history the output path as NewSafeFile found it and the
\* results of the os calls Close made ("unset": not called)
SafeFile(state, rmOnClose, e, out0) ==
    [state |-> state, rmOnClose |-> rmOnClose, err |-> e, out0 |-> out0,
     closeErr |-> "unset", removeErr |-> "unset", renameErr |-> "unset"]

\* no SafeFile yet
NoSafeFile == SafeFile("none", FALSE, "unset", Absent)

NoDisk == [out |-> Absent, temp |-> Absent]

\* run's switch: the version sub-command, or the root command
RootCmd == "root"

VersionCmd == "version"

SubCmds == {RootCmd, VersionCmd}

Init ==
    /\ pc = "flags"
    /\ InitRun
    /\ subCmd \in SubCmds
    /\ value = <<>>
    /\ res = NoResult
    /\ again = NoResult
    /\ sf = NoSafeFile
    /\ disk = NoDisk

runVars == <<fields, given, setErr, output, pkg, parsed, file, calls, genErr,
             code, err, parseErr, openErr, closeErr, written, subCmd>>

nfVars == <<value, res, again>>

sfVars == <<sf, disk>>

----------------------------------------------------------------------------
(* FieldFlags.Set, called by rootCmd.Parse for each -field occurrence *)

SetAppendAlways(a, v) ==
    [a |-> Append(a, NewField(v).f), err |-> NewField(v).err]

\* (*FieldFlags).Set: [a, err], the slice afterwards and the result
FieldFlagsSet(a, v) ==
    LET r == NewField(v) IN
    IF r.err # "nil" THEN [a |-> a, err |-> r.err]
    ELSE [a |-> Append(a, r.f), err |-> "nil"]

\* run returns code c and error e
Return(c, e) ==
    /\ pc' = "done"
    /\ code' = c
    /\ err' = e

\* rootCmd.Parse meets a -field flag: Set is called; a Set error ends the
\* parse and run returns 2
SetField(v) ==
    /\ pc = "flags"
    /\ subCmd = RootCmd
    /\ Len(given) < MaxFields
    /\ LET r == FieldFlagsSet(fields, v) IN
       /\ fields' = r.a
       /\ setErr' = r.err
       /\ IF r.err = "nil"
          THEN /\ given' = Append(given, v)
               /\ UNCHANGED <<pc, code, err, parseErr>>
          ELSE /\ given' = given
               /\ parseErr' = "error"
               /\ Return(2, "nil")
    /\ UNCHANGED <<output, pkg, parsed, file, calls, genErr, nfVars, sfVars, subCmd>>
    /\ UNCHANGED <<openErr, closeErr, written>>

\* rootCmd.Parse fails on a flag that is not defined
FlagParseError ==
    /\ pc = "flags"
    /\ subCmd = RootCmd
    /\ parseErr' = "error"
    /\ Return(2, "nil")
    /\ UNCHANGED <<openErr, closeErr, written>>
    /\ UNCHANGED <<fields, given, setErr, output, pkg, parsed, file, calls,
                   genErr, nfVars, sfVars, subCmd>>

\* rootCmd.Parse returns nil, with -output o and -package p
FlagParseDone(o, p) ==
    /\ pc = "flags"
    /\ subCmd = RootCmd
    /\ output' = o
    /\ pkg' = p
    /\ parseErr' = "nil"
    /\ pc' = "validate"
    /\ UNCHANGED <<openErr, closeErr, written>>
    /\ UNCHANGED <<fields, given, setErr, parsed, file, calls, genErr, code, err,
                   nfVars, sfVars, subCmd>>

\* the version sub-command: versionCmd.Parse and the Fprintf to stdout
VersionCommand(parseOK, printOK) ==
    /\ pc = "flags"
    /\ subCmd = VersionCmd
    /\ parseErr' = IF parseOK THEN "nil" ELSE "error"
    /\ IF ~parseOK THEN Return(2, "nil")
       ELSE IF ~printOK THEN Return(1, "print version")
       ELSE Return(0, "nil")
    /\ UNCHANGED <<fields, given, setErr, output, pkg, parsed, file, calls,
                   genErr, openErr, closeErr, written, nfVars, sfVars, subCmd>>

validateRootCmdFlagsNoFieldCheck(o, p, fs) ==
    IF o = <<>> THEN "output file is required"
    ELSE IF p = <<>> THEN "package name is required"
    ELSE "nil"

\* validateRootCmdFlags
validateRootCmdFlags(o, p, fs) ==
    IF o = <<>> THEN "output file is required"
    ELSE IF p = <<>> THEN "package name is required"
    ELSE IF Len(fs) = 0 THEN "at least one field is required"
    ELSE "nil"

ValidateFlags ==
    /\ pc = "validate"
    /\ IF validateRootCmdFlags(output, pkg, fields) # "nil"
       THEN Return(2, "nil")
       ELSE /\ pc' = "ParseFields"
            /\ UNCHANGED <<code, err>>
    /\ UNCHANGED <<parseErr, openErr, closeErr, written>>
    /\ UNCHANGED <<fields, given, setErr, output, pkg, parsed, file, calls,
                   genErr, nfVars, sfVars, subCmd>>

CallParseFields ==
    /\ pc = "ParseFields"
    /\ parsed' = ParseFields(pkg, Version, fields)
    /\ IF parsed'.err # NilError
       THEN Return(2, "nil")
       ELSE /\ pc' = "openFile"
            /\ UNCHANGED <<code, err>>
    /\ UNCHANGED <<parseErr, openErr, closeErr, written>>
    /\ UNCHANGED <<fields, given, setErr, output, pkg, file, calls, genErr, nfVars, sfVars, subCmd>>

----------------------------------------------------------------------------
(* run's generate closure *)

\* openFile(outFile): an error, or a file that has a WithRename method
\* (app.SafeFile, the tests' mockFile) or has none (the tests' discardFile
\* and recordFile)
OpenFile(ok, renamer) ==
    /\ pc = "openFile"
    /\ IF ok
       THEN /\ file' = [open |-> TRUE, renamer |-> renamer]
            /\ pc' = "Generate"
            /\ UNCHANGED <<code, err>>
       ELSE /\ file' = file
            /\ Return(1, "open file")
    /\ openErr' = IF ok THEN "nil" ELSE "error"
    /\ UNCHANGED <<parseErr, closeErr, written>>
    /\ UNCHANGED <<fields, given, setErr, output, pkg, parsed, calls, genErr,
                   nfVars, sfVars, subCmd>>

\* the getter gen.Generate declares for a field: its name and result types
Getter(field) ==
    [name |-> <<"G","e","t">> \o field.FieldName,
     results |-> IF field.FieldType = InterfaceType
                 THEN <<InterfaceType>>
                 ELSE <<field.FieldType, <<"b","o","o","l">>>>]

ContextType == Context \o <<".">> \o <<"C","o","n","t","e","x","t">>

\* the setter gen.Generate declares for a field: its name, the type of its
\* value parameter and its result type
Setter(field) ==
    [name |-> <<"S","e","t">> \o field.FieldName,
     param |-> field.FieldType,
     result |-> ContextType]

\* what gen.Generate writes for the fields, in order: per field the key
\* type, the getter and the setter
Emit(fs) ==
    [i \in DOMAIN fs |->
        [key |-> fs[i].KeyName, getter |-> Getter(fs[i]), setter |-> Setter(fs[i])]]

AfterGenerateAlwaysRename(e) == "WithRename"

\* where generate goes after gen.Generate returned e: the return of the
\* error, or the type assertion and WithRename
AfterGenerate(e) == IF e # "nil" THEN "Close" ELSE "WithRename"

\* gen.Generate(ctx, file, pkg, fs) writes to the file and returns e
Generate(e) ==
    /\ pc = "Generate"
    /\ genErr' = e
    /\ calls' = Append(calls, "Write")
    /\ written' = IF e = "nil" THEN Emit(parsed.fields) ELSE <<>>
    /\ pc' = AfterGenerate(e)
    /\ UNCHANGED <<parseErr, openErr, closeErr>>
    /\ UNCHANGED <<fields, given, setErr, output, pkg, parsed, file, code, err,
                   nfVars, sfVars, subCmd>>

\* r, ok := file.(renamer)
IsRenamer(f) == f.renamer

WithRename ==
    /\ pc = "WithRename"
    /\ calls' = IF IsRenamer(file) THEN Append(calls, "WithRename") ELSE calls
    /\ pc' = "Close"
    /\ UNCHANGED <<parseErr, openErr, closeErr, written>>
    /\ UNCHANGED <<fields, given, setErr, output, pkg, parsed, file, genErr, code,
                   err, nfVars, sfVars, subCmd>>

CombineErrDropClose(bodyErr, cerr) == bodyErr

\* the error generate returns: the deferred function combines the error of
\* the body with the error of Close
CombineErr(bodyErr, cerr) ==
    IF cerr # "nil" /\ bodyErr = "nil" THEN "close"
    ELSE IF cerr # "nil" /\ bodyErr # "nil" THEN "generate; close"
    ELSE bodyErr

\* the deferred file.Close(), generate's return and run's return
Close(e) ==
    /\ pc = "Close"
    /\ calls' = Append(calls, "Close")
    /\ file' = [file EXCEPT !.open = FALSE]
    /\ closeErr' = e
    /\ LET g == CombineErr(IF genErr = "nil" THEN "nil" ELSE "generate", e)
       IN IF g # "nil" THEN Return(1, g) ELSE Return(0, "nil")
    /\ UNCHANGED <<parseErr, openErr, written>>
    /\ UNCHANGED <<fields, given, setErr, output, pkg, parsed, genErr, nfVars, sfVars, subCmd>>

Errs == {"nil", "error"}

Next ==
    \/ \E v \in FlagValues : SetField(v)
    \/ \E parseOK \in BOOLEAN, printOK \in BOOLEAN : VersionCommand(parseOK, printOK)
    \/ FlagParseError
    \/ \E o \in Outputs, p \in Packages : FlagParseDone(o, p)
    \/ ValidateFlags
    \/ CallParseFields
    \/ \E ok \in BOOLEAN, renamer \in BOOLEAN : OpenFile(ok, renamer)
    \/ \E e \in Errs : Generate(e)
    \/ WithRename
    \/ \E e \in Errs : Close(e)

Spec == Init /\ [][Next]_vars

----------------------------------------------------------------------------
(* NewField as a function of its argument *)

InitNewField ==
    /\ pc = "NewField"
    /\ InitRun
    /\ subCmd = RootCmd
    /\ value \in Values
    /\ res = NoResult
    /\ again = NoResult
    /\ sf = NoSafeFile
    /\ disk = NoDisk

CallNewField ==
    /\ pc = "NewField"
    /\ res' = NewField(value)
    /\ pc' = "String"
    /\ UNCHANGED <<runVars, value, again, sfVars>>

\* the descriptor written back by String() and parsed again
CallString ==
    /\ pc = "String"
    /\ res.err = "nil"
    /\ again' = NewField(FieldString(res.f))
    /\ pc' = "reparsed"
    /\ UNCHANGED <<runVars, value, res, sfVars>>

NextNewField == CallNewField \/ CallString

SpecNewField == InitNewField /\ [][NextNewField]_vars

----------------------------------------------------------------------------
(* SafeFile: NewSafeFile, Write, WithRename, Close *)

\* what a Write appends to the temporary file
Chunks == {"a", "b"}

OldContent == <<"old">>

InitSafeFile ==
    /\ pc = "NewSafeFile"
    /\ InitRun
    /\ subCmd = RootCmd
    /\ value = <<>>
    /\ res = NoResult
    /\ again = NoResult
    /\ sf = NoSafeFile
    /\ disk \in {[out |-> o, temp |-> Absent] : o \in {Absent, Dir, FileOf(OldContent)}}

\* NewSafeFile(output): os.Stat, os.MkdirAll and ioutil.TempFile in turn
NewSafeFile(mkdirOK, tempOK) ==
    /\ pc = "NewSafeFile"
    /\ IF disk.out.kind = "dir"
       THEN /\ sf' = SafeFile("none", FALSE, "output is a directory", disk.out)
            /\ disk' = disk
            /\ pc' = "closed"
       ELSE IF ~mkdirOK
       THEN /\ sf' = SafeFile("none", FALSE, "create output filepath", disk.out)
            /\ disk' = disk
            /\ pc' = "closed"
       ELSE IF ~tempOK
       THEN /\ sf' = SafeFile("none", FALSE, "create temporary file", disk.out)
            /\ disk' = disk
            /\ pc' = "closed"
       ELSE /\ sf' = SafeFile("open", TRUE, "nil", disk.out)
            /\ disk' = [disk EXCEPT !.temp = FileOf(<<>>)]
            /\ pc' = "SafeFile"
    /\ UNCHANGED <<runVars, nfVars>>

\* Write of the embedded *os.File
SafeFileWrite(c) ==
    /\ pc = "SafeFile"
    /\ Len(disk.temp.data) < MaxWrites
    /\ disk' = [disk EXCEPT !.temp.data = Append(@, c)]
    /\ UNCHANGED <<pc, sf, runVars, nfVars>>

\* (*SafeFile).WithRename
SafeFileWithRename ==
    /\ pc = "SafeFile"
    /\ sf' = [sf EXCEPT !.rmOnClose = FALSE]
    /\ UNCHANGED <<pc, disk, runVars, nfVars>>

\* os.Remove(f.File.Name())
Remove(d, ok) == IF ok THEN [d EXCEPT !.temp = Absent] ELSE d

\* os.Rename(f.File.Name(), f.output)
Rename(d) == [out |-> d.temp, temp |-> Absent]

RemoveErr(ok) == IF ok THEN "nil" ELSE "error"

CloseOpKeepTemp(f, d, closeOK, removeOK, renameOK) ==
    IF ~closeOK
    THEN [sf |-> [f EXCEPT !.state = "closed", !.err = "close temporary file",
                           !.closeErr = "error", !.removeErr = RemoveErr(removeOK)],
          disk |-> Remove(d, removeOK)]
    ELSE IF f.rmOnClose
    THEN [sf |-> [f EXCEPT !.state = "closed",
                           !.err = IF removeOK THEN "nil"
                                   ELSE "remove temporary file",
                           !.closeErr = "nil", !.removeErr = RemoveErr(removeOK)],
          disk |-> Remove(d, removeOK)]
    ELSE IF renameOK
    THEN [sf |-> [f EXCEPT !.state = "closed", !.err = "nil",
                           !.closeErr = "nil", !.renameErr = "nil"],
          disk |-> Rename(d)]
    ELSE [sf |-> [f EXCEPT !.state = "closed", !.err = "rename to output file",
                           !.closeErr = "nil", !.renameErr = "error"],
          disk |-> d]

\* (*SafeFile).Close: [sf, disk] afterwards, given the results of the os
\* calls it makes
CloseOp(f, d, closeOK, removeOK, renameOK) ==
    IF ~closeOK
    THEN [sf |-> [f EXCEPT !.state = "closed", !.err = "close temporary file",
                           !.closeErr = "error", !.removeErr = RemoveErr(removeOK)],
          disk |-> Remove(d, removeOK)]
    ELSE IF f.rmOnClose
    THEN [sf |-> [f EXCEPT !.state = "closed",
                           !.err = IF removeOK THEN "nil"
                                   ELSE "remove temporary file",
                           !.closeErr = "nil", !.removeErr = RemoveErr(removeOK)],
          disk |-> Remove(d, removeOK)]
    ELSE IF renameOK
    THEN [sf |-> [f EXCEPT !.state = "closed", !.err = "nil",
                           !.closeErr = "nil", !.renameErr = "nil"],
          disk |-> Rename(d)]
    ELSE [sf |-> [f EXCEPT !.state = "closed", !.err = "rename to output file",
                           !.closeErr = "nil", !.renameErr = "error",
                           !.removeErr = RemoveErr(removeOK)],
          disk |-> Remove(d, removeOK)]

SafeFileClose(closeOK, removeOK, renameOK) ==
    /\ pc = "SafeFile"
    /\ LET r == CloseOp(sf, disk, closeOK, removeOK, renameOK) IN
       /\ sf' = r.sf
       /\ disk' = r.disk
    /\ pc' = "closed"
    /\ UNCHANGED <<runVars, nfVars>>

NextSafeFile ==
    \/ \E mkdirOK \in BOOLEAN, tempOK \in BOOLEAN : NewSafeFile(mkdirOK, tempOK)
    \/ \E c \in Chunks : SafeFileWrite(c)
    \/ SafeFileWithRename
    \/ \E closeOK \in BOOLEAN, removeOK \in BOOLEAN, renameOK \in BOOLEAN :
           SafeFileClose(closeOK, removeOK, renameOK)

SpecSafeFile == InitSafeFile /\ [][NextSafeFile]_vars

----------------------------------------------------------------------------
(* Claims about ParseFields (specification Spec) *)

ParseFieldsReturned == parsed.err.kind # "unset"

Accepted == ParseFieldsReturned /\ parsed.err = NilError

\* flag j repeats the normalized name of an earlier flag
Repeats(j) == \E i \in 1..(j - 1) : fields[i].Name = fields[j].Name

HasDuplicate == \E j \in DOMAIN fields : Repeats(j)

FailsEmpty == parsed.pkg = ZeroPackage /\ parsed.fields = <<>>

\* C1 as stated: whenever two of the flags have the same normalized name,
\* ParseFields fails with the duplicate-field error naming that field and
\* returns no package and no fields.
C1_DuplicateAlwaysReported ==
    (ParseFieldsReturned /\ HasDuplicate) =>
        /\ parsed.err.kind = "duplicated"
        /\ \E j \in DOMAIN fields : Repeats(j) /\ parsed.err.name = fields[j].Name
        /\ FailsEmpty

\* flag k is rejected by gen.Field.Validate
Invalid(k) == FieldValidate(BuildField(fields[k])) # "nil"

\* C1, amended: whenever two of the flags have the same normalized name,
\* ParseFields fails and returns no package and no fields; the error is the
\* duplicate-field error naming the first repeated name, unless a flag up to
\* and including that repetition fails gen.Field.Validate, and then it is
\* the invalid-field error naming the first such flag.
C1_DuplicateFails ==
    (ParseFieldsReturned /\ HasDuplicate) =>
        LET j == CHOOSE x \in DOMAIN fields :
                     Repeats(x) /\ \A y \in 1..(x - 1) : ~Repeats(y)
        IN /\ FailsEmpty
           /\ IF \E k \in 1..j : Invalid(k)
              THEN LET k == CHOOSE x \in 1..j :
                                Invalid(x) /\ \A y \in 1..(x - 1) : ~Invalid(y)
                   IN parsed.err = Error("invalid field", fields[k].Name)
              ELSE parsed.err = Error("duplicated", fields[j].Name)

\* two flags written differently (uID, UID:int) collide and are reported
C1_Witness ==
    /\ pc = "done"
    /\ Len(fields) = 2
    /\ fields[1].Name = fields[2].Name
    /\ fields[1].Kind # fields[2].Kind
    /\ given[1] # given[2]
    /\ parsed.err = Error("duplicated", fields[2].Name)

\* the text of t after its last c (all of t when c is absent)
AfterLast(t, c) ==
    IF \E i \in DOMAIN t : t[i] = c
    THEN LET i == CHOOSE x \in DOMAIN t :
                      t[x] = c /\ \A y \in (x + 1)..Len(t) : t[y] # c
         IN SubSeq(t, i + 1, Len(t))
    ELSE t

\* the text of t before its last c
BeforeLast(t, c) ==
    LET i == CHOOSE x \in DOMAIN t : t[x] = c /\ \A y \in (x + 1)..Len(t) : t[y] # c
    IN SubSeq(t, 1, i - 1)

\* C2 as stated: the FieldType of a CustomType field is the bare type name,
\* the segment of the raw type after its last ".".
C2_FieldTypeIsBareName ==
    Accepted =>
        \A i \in DOMAIN fields :
            fields[i].Kind = "CustomType" =>
                parsed.fields[i].FieldType = AfterLast(fields[i].Type, ".")

\* C2, amended: the FieldType of a CustomType field is the raw type after its
\* last "/" (the whole raw type when it has no "/"): the type name qualified
\* by the last element of the import path, as in b.T for a/b.T.
C2_FieldTypeIsQualifiedName ==
    Accepted =>
        \A i \in DOMAIN fields :
            fields[i].Kind = "CustomType" =>
                /\ parsed.fields[i].FieldType = AfterLast(fields[i].Type, "/")
                /\ parsed.fields[i].FieldType =
                       AfterLast(BeforeLast(fields[i].Type, "."), "/")
                           \o <<".">> \o AfterLast(fields[i].Type, ".")

C2_Witness ==
    /\ Accepted
    /\ \E i \in DOMAIN fields :
           /\ fields[i].Kind = "CustomType"
           /\ \E k \in DOMAIN fields[i].Type : fields[i].Type[k] = "/"
           /\ parsed.fields[i].FieldType = <<"b", ".", "T">>

Reverse(s) == [i \in DOMAIN s |-> s[Len(s) + 1 - i]]

\* C3: the ImportPackages of an accepted request are "context" and the
\* import path (raw type left of its last ".") of each CustomType field,
\* each once, in strictly increasing lexicographic order, whatever the
\* order of the flags.
C3_ImportsSortedUnique ==
    Accepted =>
        LET imps == parsed.pkg.ImportPackages
            want == {Context} \cup
                    {BeforeLast(fields[i].Type, ".") :
                        i \in {k \in DOMAIN fields : fields[k].Kind = "CustomType"}}
        IN /\ Range(imps) = want
           /\ Len(imps) = Cardinality(want)
           /\ \A i \in 1..(Len(imps) - 1) : StrLess(imps[i], imps[i + 1])
           /\ ParseFields(pkg, Version, Reverse(fields)).pkg.ImportPackages = imps

\* two fields share a/b, a third imports z: a/b, context, z
C3_Witness ==
    /\ Accepted
    /\ Len(fields) = 3
    /\ fields[1].Type = <<"z", ".", "T">>
    /\ Cardinality({k \in DOMAIN fields : fields[k].Kind = "CustomType"}) = 3
    /\ parsed.pkg.ImportPackages = <<<<"a", "/", "b">>, Context, <<"z">>>>

\* C8: the key names of the fields of an accepted request are pairwise
\* distinct.
C8_KeyNamesDistinct ==
    Accepted =>
        \A i, j \in DOMAIN parsed.fields :
            i # j => parsed.fields[i].KeyName # parsed.fields[j].KeyName

\* C9: an accepted request has one generation field per -field occurrence,
\* in the order given, and a Set call that fails leaves the collected flags
\* as they were.
C9_OneFieldPerFlagInOrder ==
    /\ [](Accepted =>
            /\ Len(parsed.fields) = Len(given)
            /\ \A i \in DOMAIN given :
                   /\ parsed.fields[i].FieldName = NewField(given[i]).f.Name
                   /\ fields[i] = NewField(given[i]).f)
    /\ [][setErr' # "nil" => fields' = fields]_vars

C9_Witness ==
    /\ Accepted
    /\ Len(given) = 3
    /\ parsed.fields[1].FieldName = <<"Z">>
    /\ parsed.fields[2].FieldName = <<"U", "I", "D">>
    /\ parsed.fields[3].FieldName = <<"N">>

----------------------------------------------------------------------------
(* Claims about run's generate closure (specification Spec) *)

Called(c) == \E i \in DOMAIN calls : calls[i] = c

Before(c, d) ==
    \A i, j \in DOMAIN calls : (calls[i] = c /\ calls[j] = d) => i < j

\* C10 as stated: the file is marked for rename if and only if gen.Generate
\* returned no error, and WithRename comes before Close.
C10_RenameIffGenerated ==
    (pc = "done" /\ Called("Close")) =>
        /\ Called("WithRename") <=> genErr = "nil"
        /\ Before("WithRename", "Close")

\* C10, amended: the file is marked for rename if and only if gen.Generate
\* returned no error and the file has a WithRename method; the call comes
\* before Close, and it is never made when generation failed.
C10_RenameIffGeneratedAndRenamer ==
    /\ Called("WithRename") => (genErr = "nil" /\ file.renamer)
    /\ Before("WithRename", "Close")
    /\ Called("Close") =>
           (Called("WithRename") <=> (genErr = "nil" /\ file.renamer))

C10_Witness ==
    /\ pc = "done"
    /\ file.renamer
    /\ calls = <<"Write", "WithRename", "Close">>

----------------------------------------------------------------------------
(* Claims about NewField (specification SpecNewField) *)

Returned == pc \in {"String", "reparsed"}

HasColon == \E i \in DOMAIN value : value[i] = ":"

\* the name and the type of value: the text before and after its first
\* colon, trimmed
NamePart ==
    IF HasColon
    THEN LET i == CHOOSE x \in DOMAIN value :
                      value[x] = ":" /\ \A y \in 1..(x - 1) : value[y] # ":"
         IN TrimSpace(SubSeq(value, 1, i - 1))
    ELSE TrimSpace(value)

TypePart ==
    LET i == CHOOSE x \in DOMAIN value :
                 value[x] = ":" /\ \A y \in 1..(x - 1) : value[y] # ":"
    IN TrimSpace(SubSeq(value, i + 1, Len(value)))

\* C4 as stated: name:type is CustomType when the last "." is after the last
\* "/", BuiltinOnly with the type kept when there is no ".", and
\* ErrInvalidFormat when a "." lies before the last "/"; a value with no
\* colon is Default.
C4_ClassifiedByDotAndSlash ==
    Returned =>
        IF ~HasColon THEN res.err = "nil" /\ res.f.Kind = "Default"
        ELSE LET dot == LastIndex(TypePart, ".")
                 slash == LastIndex(TypePart, "/")
             IN /\ dot > slash =>
                       (res.err = "nil" /\ res.f.Kind = "CustomType")
                /\ dot = -1 =>
                       (res.err = "nil" /\ res.f.Kind = "BuiltInOnly"
                           /\ res.f.Type = TypePart)
                /\ (dot # -1 /\ dot < slash) => res.err = "ErrInvalidFormat"

\* C4, amended: as stated, except that a type text that is empty after
\* trimming is not BuiltinOnly but the error "type is required".
C4_ClassifiedUnlessTypeEmpty ==
    Returned =>
        IF ~HasColon THEN res.err = "nil" /\ res.f.Kind = "Default"
        ELSE LET dot == LastIndex(TypePart, ".")
                 slash == LastIndex(TypePart, "/")
             IN /\ dot > slash =>
                       (res.err = "nil" /\ res.f.Kind = "CustomType"
                           /\ res.f.Type = TypePart)
                /\ (dot = -1 /\ TypePart # <<>>) =>
                       (res.err = "nil" /\ res.f.Kind = "BuiltInOnly"
                           /\ res.f.Type = TypePart)
                /\ (dot = -1 /\ TypePart = <<>>) => res.err = "type is required"
                /\ (dot # -1 /\ dot < slash) => res.err = "ErrInvalidFormat"

\* u:./u has its "." before the last "/"
C4_Witness ==
    /\ Returned
    /\ value = <<"u", ":", ".", "/">>
    /\ res.err = "ErrInvalidFormat"

\* C5: NewField returns an error for every value whose name is empty after
\* trimming.
C5_EmptyNameRejected ==
    (Returned /\ NamePart = <<>>) => res.err # "nil"

\* C6: a descriptor returned without an error has an empty Type when its
\* Kind is Default and a non-empty Type otherwise, and name: with an empty
\* type is rejected.
C6_TypeMatchesKind ==
    Returned =>
        /\ res.err = "nil" =>
               /\ res.f.Kind = "Default" => res.f.Type = <<>>
               /\ res.f.Kind \in {"BuiltInOnly", "CustomType"} => res.f.Type # <<>>
               /\ res.f.Kind \in Kinds
        /\ (HasColon /\ TypePart = <<>>) => res.err # "nil"

C6_Witness ==
    /\ Returned
    /\ value = <<"u", ":", " ">>
    /\ res.err = "type is required"

\* C7: the Name of a descriptor is the trimmed name with its first character
\* upper-cased and the rest unchanged, and parsing the descriptor's own text
\* again gives the same Name and Kind.
C7_NameNormalizedOnce ==
    /\ (Returned /\ res.err = "nil" /\ NamePart # <<>>) =>
           /\ Len(res.f.Name) = Len(NamePart)
           /\ Tail(res.f.Name) = Tail(NamePart)
           /\ res.f.Name[1] =
                  (IF NamePart[1] = BadByte THEN RuneError
                   ELSE ToUpperRune(NamePart[1]))
    /\ pc = "reparsed" =>
           /\ again.err = "nil"
           /\ again.f.Name = res.f.Name
           /\ again.f.Kind = res.f.Kind

\* uu:. is a CustomType named Uu; it is written back as Uu:. and parsed again
C7_Witness ==
    /\ pc = "reparsed"
    /\ value = <<"u", "u", ":", ".">>
    /\ res.f.Kind = "CustomType"
    /\ res.f.Name = <<"U", "u">>
    /\ again.f.Name = <<"U", "u">>

----------------------------------------------------------------------------
(* Claims about run: invalid requests and failures of generate *)

Done == pc = "done"

\* rootCmd.Parse or versionCmd.Parse failed
ParseFailed == parseErr = "error"

\* a required flag is missing: no -output, no -package, or no -field
RequiredMissing ==
    /\ subCmd = RootCmd
    /\ parseErr = "nil"
    /\ (output = <<>> \/ pkg = <<>> \/ Len(fields) = 0)

\* app.ParseFields was called and returned an error
ParseFieldsFailed == ParseFieldsReturned /\ parsed.err # NilError

\* nothing was opened, written, marked for rename or closed
NothingGenerated ==
    /\ openErr = "unset"
    /\ file = NoFile
    /\ calls = <<>>
    /\ genErr = "unset"
    /\ written = <<>>

\* C12: whenever flag parsing, the validation of the required flags (output,
\* package, at least one field) or ParseFields fails, run returns exit code 2
\* with a nil error and openFile is never called: no file is created or
\* written for an invalid request.
C12_InvalidRequestExitsTwo ==
    (Done /\ (ParseFailed \/ RequiredMissing \/ ParseFieldsFailed)) =>
        (code = 2 /\ err = "nil" /\ NothingGenerated)

\* the request has output, package and fields, and ParseFields rejects it
C12_Witness ==
    /\ Done
    /\ ~ParseFailed
    /\ ~RequiredMissing
    /\ ParseFieldsFailed
    /\ code = 2
    /\ NothingGenerated

\* a flag whose type has no package qualifier and is not a Go built-in type
\* expression
NotBuiltin(f) == f.Kind = "BuiltInOnly" /\ ~IsBuiltinType(f.Type)

HasNotBuiltin == \E i \in DOMAIN fields : NotBuiltin(fields[i])

Generated == genErr = "nil" /\ written # <<>>

\* the getter returns one value, with no presence flag
SingleValue(g) == Len(g.results) = 1

\* the getter returns the value of type t and the presence flag
ValueAndPresent(g, t) == g.results = <<t, <<"b","o","o","l">>>>

\* the type the i-th field is emitted with
EmittedType(i) == parsed.fields[i].FieldType

\* the setter takes a value of the emitted type and returns a context
SetterOfEmittedType(i) ==
    /\ written[i].setter.param = EmittedType(i)
    /\ written[i].setter.result = ContextType

\* C14 as stated: in a generated file the getter of a field returns a single
\* value exactly when the field was given without a type, and a (value,
\* present) pair for every field given with a type; every setter takes a
\* value of the emitted type and returns a context.
C14_SingleValueIffUntyped ==
    Generated =>
        /\ Len(written) = Len(fields)
        /\ \A i \in DOMAIN written :
              /\ SingleValue(written[i].getter) <=> fields[i].Kind = "Default"
              /\ fields[i].Kind # "Default" =>
                     ValueAndPresent(written[i].getter, EmittedType(i))
              /\ SetterOfEmittedType(i)

\* C14, amended: the getter returns a single value exactly when the emitted
\* type is interface{}, which is the case for a field given without a type
\* and also for a field given with the type interface{}; for every other
\* type it returns a (value, present) pair; the setters are as stated.
C14_SingleValueIffInterfaceType ==
    Generated =>
        /\ Len(written) = Len(fields)
        /\ \A i \in DOMAIN written :
              /\ SingleValue(written[i].getter) <=> EmittedType(i) = InterfaceType
              /\ fields[i].Kind = "Default" => EmittedType(i) = InterfaceType
              /\ fields[i].Kind = "BuiltInOnly" => EmittedType(i) = fields[i].Type
              /\ EmittedType(i) # InterfaceType =>
                     ValueAndPresent(written[i].getter, EmittedType(i))
              /\ SetterOfEmittedType(i)

\* a file with a field given without a type, a field given with the type
\* interface{} and a field of another type: two single-value getters and a
\* (value, present) getter
C14_Witness ==
    /\ Generated
    /\ Len(written) = 3
    /\ fields[1].Kind = "Default"
    /\ fields[2].Kind = "BuiltInOnly" /\ fields[2].Type = InterfaceType
    /\ fields[3].Kind = "BuiltInOnly" /\ fields[3].Type = IntSliceType
    /\ SingleValue(written[1].getter)
    /\ SingleValue(written[2].getter)
    /\ ValueAndPresent(written[3].getter, IntSliceType)

\* the request passed validation: the root command, whose flags parsed and
\* validated and whose fields ParseFields accepted
PassedValidation == subCmd = RootCmd /\ Accepted

\* opening the file, generating or closing the file failed
StepFailed == openErr = "error" \/ genErr = "error" \/ closeErr = "error"

AllStepsSucceeded == openErr = "nil" /\ genErr = "nil" /\ closeErr = "nil"

\* C15: for a request that passed validation, run returns exit code 1 with a
\* non-nil error whenever opening, generating or closing fails (the close
\* error is reported when generation succeeded and is combined with the
\* generation error when both fail), and exit code 0 with a nil error only
\* when all three steps succeeded; run never returns a non-nil error with a
\* code other than 1.
C15_FailureExitsOne ==
    /\ err # "nil" => (Done /\ code = 1)
    /\ (Done /\ PassedValidation) =>
          /\ code \in {0, 1}
          /\ StepFailed => (code = 1 /\ err # "nil")
          /\ openErr = "error" => (err = "open file" /\ genErr = "unset")
          /\ (genErr = "error" /\ closeErr = "nil") => err = "generate"
          /\ (genErr = "nil" /\ closeErr = "error") => err = "close"
          /\ (genErr = "error" /\ closeErr = "error") => err = "generate; close"
          /\ code = 0 <=> AllStepsSucceeded
          /\ code = 0 => err = "nil"

\* generation succeeded, the file was marked for rename, and Close failed:
\* run returns 1 with the close error
C15_Witness ==
    /\ Done
    /\ PassedValidation
    /\ genErr = "nil"
    /\ calls = <<"Write", "WithRename", "Close">>
    /\ closeErr = "error"
    /\ code = 1
    /\ err = "close"

----------------------------------------------------------------------------
(* Claims about SafeFile (specification SpecSafeFile) *)

Closed == pc = "closed" /\ sf.state = "closed"

Replaced == disk.out # sf.out0

====
